---- MODULE Spec2Model ----
(***************************************************************************)
(* Client-side interaction state machine of the interactive research CLI   *)
(* (run_interactive_research_workflow.py).  A driver resolves a run        *)
(* (resume or start new), submits the initial query, polls the run's       *)
(* status, asks clarification questions one at a time and finally waits    *)
(* for the result.  Every await of the coroutine is one action; the        *)
(* workflow engine and the remote run are the environment.                 *)
(***************************************************************************)
EXTENDS Integers, Sequences, FiniteSets, TLC

(***************************************************************************)
(* Bounds of the model.                                                    *)
(***************************************************************************)
MaxTime == 1
MaxQuestions == 2
MaxFaults == 1
MaxArgs == 3

(***************************************************************************)
(* Text.  A string is a sequence of one-character strings.                 *)
(***************************************************************************)
Uppers == <<"A","B","C","D","E","F","G","H","I","J","K","L","M",
            "N","O","P","Q","R","S","T","U","V","W","X","Y","Z">>
Lowers == <<"a","b","c","d","e","f","g","h","i","j","k","l","m",
            "n","o","p","q","r","s","t","u","v","w","x","y","z">>
DigitChars == <<"0","1","2","3","4","5","6","7","8","9">>
Whitespace == {" ", "\t", "\n"}

\* str.lower() on one character
LowerChar(c) ==
    IF \E i \in 1..Len(Uppers) : Uppers[i] = c
    THEN Lowers[CHOOSE i \in 1..Len(Uppers) : Uppers[i] = c]
    ELSE c

\* str.lower()
Lower(s) == [i \in 1..Len(s) |-> LowerChar(s[i])]

RECURSIVE LStrip(_)
LStrip(s) ==
    IF s # <<>> /\ Head(s) \in Whitespace THEN LStrip(Tail(s)) ELSE s

RECURSIVE RStrip(_)
RStrip(s) ==
    IF s # <<>> /\ s[Len(s)] \in Whitespace
    THEN RStrip(SubSeq(s, 1, Len(s) - 1))
    ELSE s

\* str.strip()
Strip(s) == RStrip(LStrip(s))

\* str(int): decimal digits of a natural number
RECURSIVE IntToStr(_)
IntToStr(n) ==
    IF n < 10 THEN <<DigitChars[n + 1]>>
    ELSE IntToStr(n \div 10) \o <<DigitChars[(n % 10) + 1]>>

(***************************************************************************)
(* Program constants.                                                      *)
(***************************************************************************)
\* the default --workflow-id, shortened to "wf"
workflow_id == <<"w","f">>

TerminalStatuses == {"completed", "failed", "timed_out", "terminated", "canceled"}
QuestionStatuses == {"awaiting_clarifications", "collecting_answers"}
ExitWords == { <<"e","x","i","t">>, <<"q","u","i","t">>,
               <<"e","n","d">>, <<"d","o","n","e">> }
RunningCoarse == {"RUNNING", "CONTINUED_AS_NEW"}
NoPreference == <<"N","o"," ","s","p","e","c","i","f","i","c"," ",
                  "p","r","e","f","e","r","e","n","c","e">>

\* the uniqueness token left out
UniqueIdNoToken(wid, t) == wid

\* f"{workflow_id}-{int(time.time())}"
UniqueId(wid, t) == wid \o <<"-">> \o IntToStr(t)

\* answer.lower() in ["exit", "quit", "end", "done"]
IsExit(answer) == Lower(answer) \in ExitWords

\* the default left out
AnswerAsTyped(answer) == answer

\* answer or "No specific preference"
AnswerOrDefault(answer) == IF answer = <<>> THEN NoPreference ELSE answer

\* the test of the status inverted: in instead of not in
ResumableInverted(s) == s.present /\ s.status \in TerminalStatuses

\* status and status.status not in [completed, failed, timed_out, terminated, canceled]
Resumable(s) == s.present /\ s.status \notin TerminalStatuses

\* the initial query submitted whatever the status
NeedsStartAlways(s) == TRUE

\* not current_status or current_status.status == "pending"
NeedsStart(s) == ~s.present \/ s.status = "pending"

(***************************************************************************)
(* The remote run and its snapshots.                                       *)
(***************************************************************************)
AllStatuses == {"pending", "awaiting_clarifications", "collecting_answers",
                "researching"} \cup TerminalStatuses
CoarseStatuses == {"RUNNING", "CONTINUED_AS_NEW", "COMPLETED", "FAILED"}
AllQuestions == <<"Budget?", "Dates?", "Where?", "Who?">>
Questions(n) == SubSeq(AllQuestions, 1, n)

NoSnapshot == [present |-> FALSE, status |-> "", questions |-> <<>>, idx |-> 0]
NoHandle == <<>>

Snapshot(r) ==
    [present |-> TRUE, status |-> r.status, questions |-> r.questions, idx |-> r.idx]

\* ResearchInteraction.get_current_question(): the question at
\* current_question_index if the index is within bounds, else none
HasCurrentQuestion(s) ==
    s.present /\ s.idx >= 0 /\ s.idx < Len(s.questions)

NewRun == [status |-> "pending", questions |-> <<>>, idx |-> 0]

Drivers == {1, 2}

VARIABLES
    now,          \* int(time.time())
    runs,         \* the runs a driver is at: run id -> run state
    taken,        \* the run ids the engine has in use
    faults,       \* remote calls that may still fail
    budget,       \* budget[d]: the invocations driver d may make: "none", "once", "any"
    typable,      \* the lines the users may type at "Your answer: "
    findable,     \* the states an existing run may be found in at lookup
    pc,           \* pc[d]: position of driver d in the coroutine
    handle,       \* handle[d]: run id the handle addresses, or NoHandle
    start_new,    \* start_new[d]
    status,       \* status[d]: the working snapshot
    exiting,      \* exiting[d]: the user has typed an exit word in this invocation
    seg           \* seg[d]: the calls, waits and inputs of this invocation: those
                  \*         before the interactive loop, then the latest poll of the
                  \*         loop and what followed it

driverVars == <<pc, handle, start_new, status, exiting, seg>>

\* the clarify mode of the CLI: parse_clarifications, then send_clarifications
VARIABLES
    cpc,                  \* position of the clarify mode
    clarification_args,   \* the KEY=VALUE arguments of --clarify
    arg_i,                \* parse_clarifications: the place of arg in clarification_args
    responses,            \* parse_clarifications: the mapping built so far
    calls                 \* send_clarifications: the calls made on the client and handle

cliVars == <<cpc, clarification_args, arg_i, responses, calls>>
vars == <<now, runs, taken, faults, budget, typable, findable, driverVars, cliVars>>

Returned == {"returned_none", "returned_result", "raised"}

Event(op, at, arg, res) == [op |-> op, at |-> at, arg |-> arg, res |-> res]
NoEvent == Event("none", 0, 0, "")

Last(q) == IF q = <<>> THEN NoEvent ELSE q[Len(q)]

Did(d, e) == seg' = [seg EXCEPT ![d] = Append(@, e)]

\* the outcome a query reports: the status, "absent" or "error"
QueryRes(s) == IF s.present THEN s.status ELSE "absent"

\* the snapshots a status query against run id may return
QueryReplies(id) ==
    IF id \notin DOMAIN runs THEN {}
    ELSE {Snapshot(runs[id])}
         \cup (IF runs[id].status = "pending" THEN {NoSnapshot} ELSE {})

CanFail == faults > 0

\* a finished run takes no update and no signal: the call raises
Closed(id) == runs[id].status \in TerminalStatuses


(***************************************************************************)
(* The remote run (InteractiveResearchWorkflow), as the driver sees it.    *)
(***************************************************************************)
\* start_research update: a pending run plans its questions and leaves pending
ApplyStartResearch(r) ==
    IF r.status = "pending"
    THEN {[r EXCEPT !.status = "awaiting_clarifications",
                    !.questions = Questions(n), !.idx = 0] : n \in 1..MaxQuestions}
         \cup {[r EXCEPT !.status = "researching"]}
    ELSE {r}

\* provide_single_clarification update: an accepted answer advances
\* current_question_index by one
ApplySingleClarification(r, qi) ==
    IF r.status \in QuestionStatuses /\ r.idx < Len(r.questions)
    THEN {[r EXCEPT !.status = "collecting_answers", !.idx = r.idx + 1]}
         \cup (IF r.idx + 1 = Len(r.questions)
               THEN {[r EXCEPT !.status = "researching", !.idx = r.idx + 1]}
               ELSE {})
    ELSE {r}

\* end_workflow_signal: the run ends
ApplyEndSignal(r) ==
    IF r.status \in TerminalStatuses THEN r ELSE [r EXCEPT !.status = "completed"]

\* the states an existing run can be found in
RunStates ==
    {[NewRun EXCEPT !.status = st] : st \in {"pending"} \cup TerminalStatuses}
    \cup UNION {{[status |-> st, questions |-> Questions(n), idx |-> n]
                   : st \in {"researching"} \cup TerminalStatuses}
                : n \in 0..MaxQuestions}
    \cup {[status |-> "awaiting_clarifications", questions |-> Questions(n), idx |-> 0]
            : n \in 1..MaxQuestions}
    \cup UNION {{[status |-> st, questions |-> Questions(n), idx |-> i]
                   : st \in {"collecting_answers"} \cup (TerminalStatuses \ {"completed"}),
                     i \in 1..n}
                : n \in 1..MaxQuestions}
    \cup {[status |-> st, questions |-> Questions(n), idx |-> 0]
            : st \in TerminalStatuses, n \in 1..MaxQuestions}

\* a driver is inside an invocation
Running(d) == pc[d] \notin {"idle"} \cup Returned

\* a driver inside an invocation holds a handle to the run
Watched(id) == \E d \in Drivers : Running(d) /\ handle[d] = id

\* the run works on its own: research starts once every question is answered,
\* and research completes
RunAdvance(id) ==
    /\ id \in DOMAIN runs
    /\ Watched(id)
    /\ \/ /\ runs[id].status \in QuestionStatuses
          /\ runs[id].idx >= Len(runs[id].questions)
          /\ runs' = [runs EXCEPT ![id].status = "researching"]
       \/ /\ runs[id].status = "researching"
          /\ runs' = [runs EXCEPT ![id].status = "completed"]
    /\ UNCHANGED <<now, taken, faults, budget, typable, findable, driverVars>>
    /\ UNCHANGED cliVars

\* the run fails, times out, is terminated or is canceled
RunFail(id) ==
    /\ id \in DOMAIN runs
    /\ Watched(id)
    /\ runs[id].status \notin TerminalStatuses
    /\ \E st \in TerminalStatuses \ {"completed"} :
          runs' = [runs EXCEPT ![id].status = st]
    /\ UNCHANGED <<now, taken, faults, budget, typable, findable, driverVars>>
    /\ UNCHANGED cliVars

\* the wall clock advances by a second
Tick ==
    /\ now < MaxTime
    /\ now' = now + 1
    /\ UNCHANGED <<runs, taken, faults, budget, typable, findable, driverVars>>
    /\ UNCHANGED cliVars


(***************************************************************************)
(* The driver: run_interactive_research_with_clarifications.               *)
(***************************************************************************)
\* what the user may type at "Your answer: "
AnswerInputs ==
    { <<"E","x","i","t">>, <<"Q","U","I","T">>, <<"E","N","D">>,
      <<" ","d","o","n","e"," ">>,
      <<>>, <<" "," ">>, <<" ","E","n","d","s"," ">> }

\* if start_new: ... / if not handle: raise RuntimeError
AfterResolve(sn, h) ==
    IF sn THEN "start" ELSE IF h = NoHandle THEN "raised" ELSE "ensure_query"

\* the loop goes on while there are questions, whatever the index
InnerLoopWhileQuestions(s) == IF s.questions # <<>> THEN "input" ELSE "loop_query"

\* while status.get_current_question() is not None
InnerLoop(s) == IF HasCurrentQuestion(s) THEN "input" ELSE "loop_query"

\* the researching branch left out: researching is an unexpected status
LoopDispatchNoResearching(s) ==
    IF ~s.present THEN "sleep_80"
    ELSE IF s.status \in QuestionStatuses THEN InnerLoop(s)
    ELSE IF s.status = "completed" THEN "result"
    ELSE IF s.status = "pending" THEN "sleep_129"
    ELSE "sleep_133"

\* the branches of the interactive loop on a polled snapshot
LoopDispatch(s) ==
    IF ~s.present THEN "sleep_80"
    ELSE IF s.status \in QuestionStatuses THEN InnerLoop(s)
    ELSE IF s.status = "researching" THEN "result"
    ELSE IF s.status = "completed" THEN "result"
    ELSE IF s.status = "pending" THEN "sleep_129"
    ELSE "sleep_133"

\* the failure of start_workflow swallowed: the invocation goes on with the handle
\* it has
AfterStartSwallowed(ok, h, old) == AfterResolve(FALSE, IF ok THEN h ELSE old)

\* handle = await client.start_workflow(...) / except: raise / if not handle: raise
AfterStart(ok, h, old) == IF ok THEN AfterResolve(FALSE, h) ELSE "raised"

\* the answer sent again when the update raises
AfterClarifyResubmit(ok, s) == IF ok THEN InnerLoop(s) ELSE "clarify"

\* the update returns: back to the while test / it raises: except Exception
AfterClarify(ok, s) == IF ok THEN InnerLoop(s) ELSE "describe"

\* if answer.lower() in [...]: signal, return / else: execute_update
AfterInput(a) == IF IsExit(a) THEN "signal" ELSE "clarify"

\* await handle.signal(...); return / except Exception: describe
AfterSignal(ok) == IF ok THEN "returned_none" ELSE "describe"

\* the test of the coarse status left out: the loop always retries
AfterDescribeAlwaysRetry(c) == "sleep_142"

\* CONTINUED_AS_NEW left out of the test
AfterDescribeRunningOnly(c) == IF c # "RUNNING" THEN "returned_none" ELSE "sleep_142"

\* if desc.status not in ("RUNNING", "CONTINUED_AS_NEW"): return
AfterDescribe(c) == IF c \notin RunningCoarse THEN "returned_none" ELSE "sleep_142"

\* the update's response dropped: the working snapshot stays as polled
WorkingStale(old, r) == old

\* status = await handle.execute_update(...): the response is the working snapshot
Working(old, r) == Snapshot(r)

\* the 1-based position shown to the user sent as the index
SingleClarificationInputOneBased(s, a) ==
    [question_index |-> s.idx + 1, answer |-> AnswerOrDefault(a)]

\* SingleClarificationInput(question_index=..., answer=answer or "No specific preference")
SingleClarificationInput(s, a) ==
    [question_index |-> s.idx, answer |-> AnswerOrDefault(a)]

SleepPcs == {"sleep_80", "sleep_129", "sleep_133", "sleep_142"}
SleepSeconds(p) == IF p = "sleep_80" THEN 1 ELSE 2
SleepLine(p) ==
    IF p = "sleep_80" THEN 80 ELSE IF p = "sleep_129" THEN 129
    ELSE IF p = "sleep_133" THEN 133 ELSE 142

\* a remote call fails: one fault of the budget is used
Fault == CanFail /\ faults' = faults - 1

\* an update or a signal raises: the run is finished, or the call fails
Raises(id) == (Closed(id) /\ UNCHANGED faults) \/ (~Closed(id) /\ Fault)

\* the runs the other drivers are at
Others(d) == {id \in DOMAIN runs : \E e \in Drivers \ {d} : Running(e) /\ handle[e] = id}

\* the run that workflow_id names when driver d looks it up: the one another driver
\* is at, or else none, or a run in any state a run can be in
Found(d) ==
    IF workflow_id \in Others(d) THEN {[id \in Others(d) |-> runs[id]]}
    ELSE {[id \in Others(d) |-> runs[id]]}
         \cup {(workflow_id :> r) @@ [id \in Others(d) |-> runs[id]] : r \in findable}

Invoke(d) ==
    /\ pc[d] \in {"idle"} \cup Returned
    /\ budget[d] # "none"
    /\ budget' = [budget EXCEPT ![d] = IF @ = "once" THEN "none" ELSE @]
    /\ pc' = [pc EXCEPT ![d] = "get_handle"]
    /\ handle' = [handle EXCEPT ![d] = NoHandle]
    /\ start_new' = [start_new EXCEPT ![d] = TRUE]
    /\ status' = [status EXCEPT ![d] = NoSnapshot]
    /\ exiting' = [exiting EXCEPT ![d] = FALSE]
    /\ seg' = [seg EXCEPT ![d] = <<>>]
    /\ runs' = [id \in Others(d) |-> runs[id]]
    /\ UNCHANGED <<now, taken, faults, typable, findable>>
    /\ UNCHANGED cliVars

GetHandle(d) ==
    /\ pc[d] = "get_handle"
    /\ \/ /\ handle' = [handle EXCEPT ![d] = workflow_id]
          /\ runs' \in Found(d)
          /\ pc' = [pc EXCEPT ![d] = "resume_query"]
          /\ Did(d, Event("get_workflow_handle", 31, workflow_id, "ok"))
          /\ UNCHANGED faults
       \/ /\ Fault
          /\ pc' = [pc EXCEPT ![d] = AfterResolve(start_new[d], handle[d])]
          /\ Did(d, Event("get_workflow_handle", 31, workflow_id, "error"))
          /\ UNCHANGED <<handle, runs>>
    /\ UNCHANGED <<now, taken, budget, typable, findable, start_new, status, exiting>>
    /\ UNCHANGED cliVars

ResumeQuery(d) ==
    /\ pc[d] = "resume_query"
    /\ \/ \E s \in QueryReplies(handle[d]) :
            /\ start_new' = [start_new EXCEPT ![d] = ~Resumable(s)]
            /\ status' = [status EXCEPT ![d] = s]
            /\ Did(d, Event("query", 35, handle[d], QueryRes(s)))
            /\ UNCHANGED faults
       \/ /\ \/ handle[d] \notin DOMAIN runs /\ UNCHANGED faults
             \/ Fault
          /\ Did(d, Event("query", 35, handle[d], "error"))
          /\ UNCHANGED <<start_new, status>>
    /\ pc' = [pc EXCEPT ![d] = AfterResolve(start_new'[d], handle[d])]
    /\ UNCHANGED <<now, runs, taken, budget, typable, findable, handle, exiting>>
    /\ UNCHANGED cliVars

StartWorkflow(d) ==
    /\ pc[d] = "start"
    /\ LET unique_id == UniqueId(workflow_id, now) IN
       \/ /\ unique_id \notin taken
          /\ runs' = (unique_id :> NewRun) @@ [id \in Others(d) |-> runs[id]]
          /\ taken' = taken \cup {unique_id}
          /\ handle' = [handle EXCEPT ![d] = unique_id]
          /\ pc' = [pc EXCEPT ![d] = AfterStart(TRUE, unique_id, handle[d])]
          /\ Did(d, Event("start_workflow", 53, unique_id, "ok"))
          /\ UNCHANGED faults
       \/ /\ \/ unique_id \in taken /\ UNCHANGED faults
             \/ Fault
          /\ pc' = [pc EXCEPT ![d] = AfterStart(FALSE, unique_id, handle[d])]
          /\ Did(d, Event("start_workflow", 53, unique_id, "error"))
          /\ UNCHANGED <<runs, taken, handle>>
    /\ UNCHANGED <<now, budget, typable, findable, start_new, status, exiting>>
    /\ UNCHANGED cliVars

EnsureQuery(d) ==
    /\ pc[d] = "ensure_query"
    /\ \/ \E s \in QueryReplies(handle[d]) :
            /\ pc' = [pc EXCEPT ![d] =
                        IF NeedsStart(s) THEN "ensure_update" ELSE "loop_query"]
            /\ Did(d, Event("query", 67, handle[d], QueryRes(s)))
            /\ UNCHANGED faults
       \/ /\ Fault
          /\ pc' = [pc EXCEPT ![d] = "raised"]
          /\ Did(d, Event("query", 67, handle[d], "error"))
    /\ UNCHANGED <<now, runs, taken, budget, typable, findable, handle, start_new, status, exiting>>
    /\ UNCHANGED cliVars

EnsureUpdate(d) ==
    /\ pc[d] = "ensure_update"
    /\ \/ \E r \in ApplyStartResearch(runs[handle[d]]) :
            /\ ~Closed(handle[d])
            /\ runs' = [runs EXCEPT ![handle[d]] = r]
            /\ pc' = [pc EXCEPT ![d] = "loop_query"]
            /\ Did(d, Event("start_research", 70, handle[d], r.status))
            /\ UNCHANGED faults
       \/ /\ Raises(handle[d])
          /\ \E r \in ApplyStartResearch(runs[handle[d]]) \cup {runs[handle[d]]} :
                runs' = [runs EXCEPT ![handle[d]] = r]
          /\ pc' = [pc EXCEPT ![d] = "raised"]
          /\ Did(d, Event("start_research", 70, handle[d], "error"))
    /\ UNCHANGED <<now, taken, budget, typable, findable, handle, start_new, status, exiting>>
    /\ UNCHANGED cliVars

\* a poll opens a new segment
Polled(d, e) == seg' = [seg EXCEPT ![d] = <<e>>]

LoopQuery(d) ==
    /\ pc[d] = "loop_query"
    /\ \/ \E s \in QueryReplies(handle[d]) :
            /\ status' = [status EXCEPT ![d] = s]
            /\ pc' = [pc EXCEPT ![d] = LoopDispatch(s)]
            /\ Polled(d, Event("query", 77, s.idx, QueryRes(s)))
            /\ UNCHANGED faults
       \/ /\ Fault
          /\ pc' = [pc EXCEPT ![d] = "describe"]
          /\ Polled(d, Event("query", 77, 0, "error"))
          /\ UNCHANGED status
    /\ UNCHANGED <<now, runs, taken, budget, typable, findable, handle, start_new, exiting>>
    /\ UNCHANGED cliVars

\* answer = input("Your answer: ").strip(), then the exit test
Input(d) ==
    /\ pc[d] = "input"
    /\ \E line \in typable :
          /\ pc' = [pc EXCEPT ![d] = AfterInput(Strip(line))]
          /\ exiting' = [exiting EXCEPT ![d] = @ \/ AfterInput(Strip(line)) = "signal"]
          /\ Did(d, Event("input", 97, line, "ok"))
    /\ UNCHANGED <<now, runs, taken, faults, budget, typable, findable, handle, start_new, status>>
    /\ UNCHANGED cliVars

Signal(d) ==
    /\ pc[d] = "signal"
    /\ \/ /\ ~Closed(handle[d])
          /\ runs' = [runs EXCEPT ![handle[d]] = ApplyEndSignal(@)]
          /\ pc' = [pc EXCEPT ![d] = AfterSignal(TRUE)]
          /\ Did(d, Event("signal", 101, 0, "ok"))
          /\ UNCHANGED faults
       \/ /\ Raises(handle[d])
          /\ \E r \in {ApplyEndSignal(runs[handle[d]]), runs[handle[d]]} :
                runs' = [runs EXCEPT ![handle[d]] = r]
          /\ pc' = [pc EXCEPT ![d] = AfterSignal(FALSE)]
          /\ Did(d, Event("signal", 101, 0, "error"))
    /\ UNCHANGED <<now, taken, budget, typable, findable, handle, start_new, status, exiting>>
    /\ UNCHANGED cliVars

\* the local variable answer: the line read last, trimmed
Answer(d) == Strip(Last(seg[d]).arg)

Clarify(d) ==
    /\ pc[d] = "clarify"
    /\ LET input == SingleClarificationInput(status[d], Answer(d))
           replies == ApplySingleClarification(runs[handle[d]], input.question_index)
       IN
       \/ \E r \in replies :
            /\ ~Closed(handle[d])
            /\ runs' = [runs EXCEPT ![handle[d]] = r]
            /\ status' = [status EXCEPT ![d] = Working(@, r)]
            /\ pc' = [pc EXCEPT ![d] = AfterClarify(TRUE, Working(status[d], r))]
            /\ Did(d, Event("provide_single_clarification", 104, input, r.status))
            /\ UNCHANGED faults
       \/ /\ Raises(handle[d])
          /\ \E r \in replies \cup {runs[handle[d]]} :
                runs' = [runs EXCEPT ![handle[d]] = r]
          /\ pc' = [pc EXCEPT ![d] = AfterClarify(FALSE, status[d])]
          /\ Did(d, Event("provide_single_clarification", 104, input, "error"))
          /\ UNCHANGED status
    /\ UNCHANGED <<now, taken, budget, typable, findable, handle, start_new, exiting>>
    /\ UNCHANGED cliVars

Sleep(d) ==
    /\ pc[d] \in SleepPcs
    /\ pc' = [pc EXCEPT ![d] = "loop_query"]
    /\ Did(d, Event("sleep", SleepLine(pc[d]), SleepSeconds(pc[d]), "ok"))
    /\ UNCHANGED <<now, runs, taken, faults, budget, typable, findable, handle, start_new, status, exiting>>
    /\ UNCHANGED cliVars

Describe(d) ==
    /\ pc[d] = "describe"
    /\ \/ \E c \in CoarseStatuses :
            /\ pc' = [pc EXCEPT ![d] = AfterDescribe(c)]
            /\ Did(d, Event("describe", 138, 0, c))
            /\ UNCHANGED faults
       \/ /\ Fault
          /\ pc' = [pc EXCEPT ![d] = "raised"]
          /\ Did(d, Event("describe", 138, 0, "error"))
    /\ UNCHANGED <<now, runs, taken, budget, typable, findable, handle, start_new, status, exiting>>
    /\ UNCHANGED cliVars

\* handle.result() blocks until the run is finished
Result(d) ==
    /\ pc[d] = "result"
    /\ \/ /\ runs[handle[d]].status = "completed"
          /\ pc' = [pc EXCEPT ![d] = "returned_result"]
          /\ Did(d, Event("result", 146, 0, "ok"))
          /\ UNCHANGED faults
       \/ /\ \/ /\ runs[handle[d]].status \in TerminalStatuses \ {"completed"}
                /\ UNCHANGED faults
             \/ Fault
          /\ pc' = [pc EXCEPT ![d] = "raised"]
          /\ Did(d, Event("result", 146, 0, "error"))
    /\ UNCHANGED <<now, runs, taken, budget, typable, findable, handle, start_new, status, exiting>>
    /\ UNCHANGED cliVars

(***************************************************************************)
(* Specifications.                                                         *)
(***************************************************************************)
InitDrivers ==
    /\ pc = [d \in Drivers |-> "idle"]
    /\ handle = [d \in Drivers |-> NoHandle]
    /\ start_new = [d \in Drivers |-> TRUE]
    /\ status = [d \in Drivers |-> NoSnapshot]
    /\ exiting = [d \in Drivers |-> FALSE]
    /\ seg = [d \in Drivers |-> <<>>]

InitRuns == runs = <<>> /\ taken = {}

\* the clarify mode is not in use
InitCli ==
    /\ cpc = "idle"
    /\ clarification_args = <<>>
    /\ arg_i = 1
    /\ responses = <<>>
    /\ calls = <<>>

\* one driver, invoked again and again
Init ==
    /\ now = 0
    /\ InitRuns
    /\ faults = MaxFaults
    /\ budget = [d \in Drivers |-> IF d = 1 THEN "any" ELSE "none"]
    /\ typable = AnswerInputs
    /\ findable = RunStates
    /\ InitDrivers
    /\ InitCli

DriverStep(d) ==
    \/ Invoke(d)
    \/ GetHandle(d)
    \/ ResumeQuery(d)
    \/ StartWorkflow(d)
    \/ EnsureQuery(d)
    \/ EnsureUpdate(d)
    \/ LoopQuery(d)
    \/ Input(d)
    \/ Signal(d)
    \/ Clarify(d)
    \/ Sleep(d)
    \/ Describe(d)
    \/ Result(d)

Next ==
    \/ \E d \in Drivers : DriverStep(d)
    \/ \E id \in DOMAIN runs : RunAdvance(id)
    \/ \E id \in DOMAIN runs : RunFail(id)
    \/ Tick

Spec == Init /\ [][Next]_vars

\* two independent instances of the driver, each invoked once, on a run_id that
\* names no run or a pending one; calls raise only on a finished run
TwoInit ==
    /\ now = 0
    /\ InitRuns
    /\ faults = 0
    /\ budget = [d \in Drivers |-> "once"]
    /\ typable = {<<>>, <<"E","N","D">>}
    /\ findable = {NewRun}
    /\ InitDrivers
    /\ InitCli

\* the two instances, the progress of the run they share and the clock; the run
\* does not fail on its own
TwoNext ==
    \/ \E d \in Drivers : DriverStep(d)
    \/ \E id \in DOMAIN runs : RunAdvance(id)
    \/ Tick

TwoSpec == TwoInit /\ [][TwoNext]_vars

\* one invocation in which no remote call fails on its own
LiveInit ==
    /\ now = 0
    /\ InitRuns
    /\ faults = 0
    /\ budget = [d \in Drivers |-> IF d = 1 THEN "once" ELSE "none"]
    /\ typable = AnswerInputs
    /\ findable = RunStates
    /\ InitDrivers
    /\ InitCli

\* every await of the coroutine completes when it can: a query, an update, a signal
\* or a describe returns or raises, a sleep elapses, the user answers, and result()
\* returns once the run is finished
LiveSpec == LiveInit /\ [][Next]_vars /\ WF_vars(DriverStep(1))

(***************************************************************************)
(* The clarify mode of main: parse_clarifications(args.clarify), then      *)
(* send_clarifications(client, args.workflow_id, responses).               *)
(***************************************************************************)
\* what --clarify may be given
ArgChoices ==
    { <<"a","=","1">>, <<"a","=","2">>, <<"b","=","x","=","y">>,
      <<"b">>, <<"=","v">>, <<"a","=">> }

ArgLists == UNION {[1..n -> ArgChoices] : n \in 0..MaxArgs}

\* "=" in arg
HasSep(arg) == \E i \in 1..Len(arg) : arg[i] = "="

\* arg.rsplit("=", 1): the split at the last "="
SplitAtLast(arg) ==
    LET i == CHOOSE i \in 1..Len(arg) :
                 arg[i] = "=" /\ \A j \in (i + 1)..Len(arg) : arg[j] # "="
    IN  <<SubSeq(arg, 1, i - 1), SubSeq(arg, i + 1, Len(arg))>>

\* arg.split("=", 1): the split at the first "="
Split(arg) ==
    LET i == CHOOSE i \in 1..Len(arg) :
                 arg[i] = "=" /\ \A j \in 1..(i - 1) : arg[j] # "="
    IN  <<SubSeq(arg, 1, i - 1), SubSeq(arg, i + 1, Len(arg))>>

\* responses[key] = value
SetItem(dict, key, value) == (key :> value) @@ dict

\* ClarificationInput(responses=responses)
ClarificationInput(rs) == [responses |-> rs]

\* the failure of the update raised to the caller
AfterSendRaises(ok) == IF ok THEN "returned" ELSE "raised"

\* the try body ends / except Exception as e: print
AfterSend(ok) == "returned"

\* for arg in clarification_args: if "=" in arg: key, value = ...; responses[key] = value
ParseArg ==
    /\ cpc = "parse"
    /\ arg_i <= Len(clarification_args)
    /\ LET arg == clarification_args[arg_i] IN
          responses' = IF HasSep(arg)
                       THEN SetItem(responses, Split(arg)[1], Split(arg)[2])
                       ELSE responses
    /\ arg_i' = arg_i + 1
    /\ UNCHANGED <<cpc, clarification_args, calls>>
    /\ UNCHANGED <<now, runs, taken, faults, budget, typable, findable, driverVars>>

\* return responses, and main calls send_clarifications with them
ParseReturn ==
    /\ cpc = "parse"
    /\ arg_i > Len(clarification_args)
    /\ cpc' = "get_handle"
    /\ UNCHANGED <<clarification_args, arg_i, responses, calls>>
    /\ UNCHANGED <<now, runs, taken, faults, budget, typable, findable, driverVars>>

\* handle = client.get_workflow_handle(workflow_id), inside the try
SendGetHandle ==
    /\ cpc = "get_handle"
    /\ \/ /\ cpc' = "update"
          /\ calls' = Append(calls, Event("get_workflow_handle", 186, workflow_id, "ok"))
          /\ UNCHANGED faults
       \/ /\ Fault
          /\ cpc' = AfterSend(FALSE)
          /\ calls' = Append(calls, Event("get_workflow_handle", 186, workflow_id, "error"))
    /\ UNCHANGED <<clarification_args, arg_i, responses>>
    /\ UNCHANGED <<now, runs, taken, budget, typable, findable, driverVars>>

\* result = await handle.execute_update(provide_clarifications, ClarificationInput(...)):
\* the run the id names takes the update, or there is no such run, or it is closed,
\* or the call fails
SendUpdate ==
    /\ cpc = "update"
    /\ \E ok \in BOOLEAN :
          /\ cpc' = AfterSend(ok)
          /\ calls' = Append(calls, Event("provide_clarifications", 187,
                                          ClarificationInput(responses),
                                          IF ok THEN "ok" ELSE "error"))
    /\ UNCHANGED <<clarification_args, arg_i, responses>>
    /\ UNCHANGED <<now, runs, taken, faults, budget, typable, findable, driverVars>>

\* the CLI is run with --clarify and at most MaxArgs arguments
CliInit ==
    /\ now = 0
    /\ InitRuns
    /\ faults = MaxFaults
    /\ budget = [d \in Drivers |-> "none"]
    /\ typable = {}
    /\ findable = {}
    /\ InitDrivers
    /\ cpc = "parse"
    /\ clarification_args \in ArgLists
    /\ arg_i = 1
    /\ responses = <<>>
    /\ calls = <<>>

CliNext ==
    \/ ParseArg
    \/ ParseReturn
    \/ SendGetHandle
    \/ SendUpdate

CliSpec == CliInit /\ [][CliNext]_vars

(***************************************************************************)
(* Reading the events of an invocation.                                    *)
(***************************************************************************)
Events(d) == 1..Len(seg[d])
Is(e, op, at) == e.op = op /\ e.at = at
StartEvents(d) == {i \in Events(d) : seg[d][i].op = "start_workflow"}
LiveStatuses == AllStatuses \ TerminalStatuses

\* the invocation has not polled in the interactive loop yet
BeforeLoop(d) == seg[d] # <<>> /\ seg[d][1].op = "get_workflow_handle"
\* the invocation has polled in the interactive loop
InLoop(d) == seg[d] # <<>> /\ Is(seg[d][1], "query", 77)

\* the resume query of the invocation returned a snapshot with a live status
ResumedLive(d) ==
    /\ BeforeLoop(d) /\ Len(seg[d]) >= 2
    /\ Is(seg[d][2], "query", 35) /\ seg[d][2].res \in LiveStatuses

\* the lookup failed, or the resume query failed, found no snapshot or a terminal one
MustStartNew(d) ==
    /\ BeforeLoop(d)
    /\ \/ seg[d][1].res = "error"
       \/ /\ Len(seg[d]) >= 2 /\ Is(seg[d][2], "query", 35)
          /\ seg[d][2].res \in {"error", "absent"} \cup TerminalStatuses

\* run_id plus a uniqueness token
IsFreshId(id) ==
    /\ id # workflow_id
    /\ Len(id) > Len(workflow_id) + 1
    /\ SubSeq(id, 1, Len(workflow_id) + 1) = workflow_id \o <<"-">>

(***************************************************************************)
(* C1: when the resume query returns a snapshot whose status is not        *)
(* terminal, the invocation never calls start_workflow: it keeps the       *)
(* handle of the run it found, and no call of the interactive loop is a    *)
(* start_workflow either.                                                  *)
(***************************************************************************)
C1_ResumeNeverStarts ==
    \A d \in Drivers :
        /\ ResumedLive(d) =>
              /\ StartEvents(d) = {}
              /\ pc[d] # "start"
              /\ ~start_new[d]
              /\ handle[d] = workflow_id
        /\ InLoop(d) => StartEvents(d) = {} /\ pc[d] # "start"

C1_Witness ==
    \E d \in Drivers :
        /\ ResumedLive(d) /\ seg[d][2].res = "collecting_answers"
        /\ Len(seg[d]) = 3 /\ Is(seg[d][3], "query", 67)
        /\ pc[d] = "loop_query"

(***************************************************************************)
(* C2: when the lookup fails, the resume query fails, the snapshot is      *)
(* absent or its status is terminal, the invocation calls start_workflow   *)
(* exactly once, under run_id plus a uniqueness token, which differs from  *)
(* run_id, the identifier of the prior run; the call that succeeds leaves  *)
(* the handle on that one new run, the call that fails ends the            *)
(* invocation.  A handle in use is run_id or such a fresh identifier.      *)
(***************************************************************************)
C2_StartsOneNewRun ==
    \A d \in Drivers :
        /\ MustStartNew(d) =>
              IF pc[d] = "start" THEN StartEvents(d) = {}
              ELSE /\ Cardinality(StartEvents(d)) = 1
                   /\ \A i \in StartEvents(d) :
                         /\ IsFreshId(seg[d][i].arg)
                         /\ seg[d][i].res = "ok" =>
                               /\ handle[d] = seg[d][i].arg
                               /\ seg[d][i].arg \in DOMAIN runs
                         /\ seg[d][i].res = "error" =>
                               pc[d] = "raised" /\ i = Len(seg[d])
        /\ InLoop(d) =>
              /\ StartEvents(d) = {}
              /\ handle[d] # workflow_id => IsFreshId(handle[d]) /\ handle[d] \in taken

C2_Witness ==
    \E d \in Drivers :
        /\ MustStartNew(d) /\ Len(seg[d]) = 3
        /\ Is(seg[d][2], "query", 35) /\ seg[d][2].res = "canceled"
        /\ seg[d][3].op = "start_workflow" /\ seg[d][3].res = "ok"
        /\ handle[d] = <<"w","f","-","1">>
        /\ pc[d] = "ensure_query"

(***************************************************************************)
(* C3: the start_research update is issued only right after the status     *)
(* query of ensure_started returned no snapshot or the status pending, and *)
(* at most once in an invocation; when that query finds the run beyond     *)
(* pending, the invocation goes on to the interactive loop without         *)
(* submitting the query.                                                   *)
(***************************************************************************)
C3_QuerySubmittedOnlyWhenPending ==
    \A d \in Drivers :
        /\ \A i \in Events(d) :
              seg[d][i].op = "start_research" =>
                  /\ i > 1
                  /\ Is(seg[d][i - 1], "query", 67)
                  /\ seg[d][i - 1].res \in {"absent", "pending"}
        /\ \A i \in Events(d) :
              (Is(seg[d][i], "query", 67) /\ seg[d][i].res \in AllStatuses \ {"pending"}) =>
                  i = Len(seg[d]) /\ pc[d] = "loop_query"
        /\ Cardinality({i \in Events(d) : seg[d][i].op = "start_research"}) <= 1
        /\ pc[d] = "ensure_update" =>
              /\ Is(Last(seg[d]), "query", 67)
              /\ Last(seg[d]).res \in {"absent", "pending"}

C3_Witness ==
    \E d \in Drivers :
        /\ BeforeLoop(d)
        /\ Is(Last(seg[d]), "query", 67)
        /\ Last(seg[d]).res = "awaiting_clarifications"
        /\ pc[d] = "loop_query"

\* the place in seg of the latest exit word typed, 0 when it was typed before the
\* latest poll
ExitTyped(d) ==
    LET typed == {i \in Events(d) : seg[d][i].op = "input" /\ IsExit(Strip(seg[d][i].arg))}
    IN  IF typed = {} THEN 0 ELSE CHOOSE i \in typed : \A j \in typed : j <= i

(***************************************************************************)
(* C4: once the user has typed an exit word, the invocation makes no       *)
(* further status query, no clarification update and no result fetch: it   *)
(* signals the run and returns.                                            *)
(***************************************************************************)
C4_ExitEndsTheInvocation ==
    \A d \in Drivers :
        exiting[d] =>
            \A i \in Events(d) :
                i > ExitTyped(d) =>
                    seg[d][i].op \notin {"query", "provide_single_clarification", "result"}

(***************************************************************************)
(* C5: a poll of the interactive loop that finds the status failed,        *)
(* timed_out, terminated or canceled ends the loop on the error path: the  *)
(* invocation is over, with no wait, no further poll and no result wait.   *)
(***************************************************************************)
C5_FailedStatusEndsTheLoop ==
    \A d \in Drivers :
        (InLoop(d) /\ seg[d][1].res \in TerminalStatuses \ {"completed"}) =>
            /\ Len(seg[d]) = 1
            /\ pc[d] \in {"returned_none", "raised"}

(***************************************************************************)
(* C6: when a call of the interactive loop raises and describe() then      *)
(* reports RUNNING or CONTINUED_AS_NEW, the invocation does not end: it    *)
(* waits two seconds and is then back at the status query of the loop.     *)
(***************************************************************************)
C6_RetryWhileRunning ==
    \A d \in Drivers : \A i \in Events(d) :
        (seg[d][i].op = "describe" /\ seg[d][i].res \in RunningCoarse) =>
            /\ i > 1 /\ seg[d][i - 1].res = "error"
            /\ \/ i = Len(seg[d]) /\ pc[d] = "sleep_142"
               \/ /\ i + 1 = Len(seg[d])
                  /\ Is(seg[d][i + 1], "sleep", 142) /\ seg[d][i + 1].arg = 2
                  /\ pc[d] = "loop_query"

C6_Witness ==
    \E d \in Drivers :
        /\ Len(seg[d]) = 4
        /\ Is(seg[d][1], "query", 77) /\ seg[d][1].res = "awaiting_clarifications"
        /\ seg[d][2].op = "input"
        /\ seg[d][3].op = "provide_single_clarification" /\ seg[d][3].res = "error"
        /\ seg[d][4].op = "describe" /\ seg[d][4].res = "CONTINUED_AS_NEW"
        /\ pc[d] = "sleep_142"

(***************************************************************************)
(* C7: when a call of the interactive loop raises and describe() reports   *)
(* a coarse status other than RUNNING and CONTINUED_AS_NEW, the invocation *)
(* returns without a result, and describe() was its last call.             *)
(***************************************************************************)
C7_StopWhenNotRunning ==
    \A d \in Drivers : \A i \in Events(d) :
        (seg[d][i].op = "describe" /\ seg[d][i].res \in CoarseStatuses \ RunningCoarse) =>
            /\ i > 1 /\ seg[d][i - 1].res = "error"
            /\ i = Len(seg[d])
            /\ pc[d] = "returned_none"

C7_Witness ==
    \E d \in Drivers :
        /\ Len(seg[d]) = 2
        /\ Is(seg[d][1], "query", 77) /\ seg[d][1].res = "error"
        /\ seg[d][2].op = "describe" /\ seg[d][2].res = "FAILED"
        /\ pc[d] = "returned_none"

(***************************************************************************)
(* C8: a poll of the interactive loop that finds the status researching or *)
(* completed is followed by no question, no clarification update, no       *)
(* signal and no further poll: the next call is the blocking result().     *)
(***************************************************************************)
C8_ResearchingGoesToResult ==
    \A d \in Drivers :
        (InLoop(d) /\ seg[d][1].res \in {"researching", "completed"}) =>
            \/ Len(seg[d]) = 1 /\ pc[d] = "result"
            \/ /\ Len(seg[d]) = 2 /\ Is(seg[d][2], "result", 146)
               /\ pc[d] \in {"returned_result", "raised"}

C8_Witness ==
    \E d \in Drivers :
        /\ InLoop(d) /\ seg[d][1].res = "researching"
        /\ Len(seg[d]) = 2 /\ Is(seg[d][2], "result", 146) /\ seg[d][2].res = "ok"
        /\ pc[d] = "returned_result"

\* a round of questions from the first one, with no failure and no exit so far
CleanRound(d) ==
    /\ InLoop(d)
    /\ seg[d][1].res = "awaiting_clarifications" /\ seg[d][1].arg = 0
    /\ ~exiting[d]
    /\ \A i \in Events(d) : seg[d][i].res # "error"

(***************************************************************************)
(* C9: a poll that finds awaiting_clarifications with N questions and the  *)
(* cursor at 0 is followed, while no call fails and no exit word is typed, *)
(* by an answer read and an update for question 0, then for question 1,    *)
(* and so on, with no status query in between; each response becomes the   *)
(* working snapshot; after the N-th update the current question is         *)
(* undefined and the invocation is back at the status query of the loop.   *)
(***************************************************************************)
C9_AnswersInOrder ==
    \A d \in Drivers :
        CleanRound(d) =>
            LET n == Len(status[d].questions)
                len == Len(seg[d])
            IN  /\ n >= 1
                /\ len <= 2 * n + 1
                /\ \A i \in 2..len :
                      IF i % 2 = 0
                      THEN Is(seg[d][i], "input", 97)
                      ELSE /\ Is(seg[d][i], "provide_single_clarification", 104)
                           /\ seg[d][i].arg.question_index = (i - 3) \div 2
                /\ len % 2 = 1 => status[d].idx = (len - 1) \div 2
                /\ pc[d] = IF len = 2 * n + 1 THEN "loop_query"
                           ELSE IF len % 2 = 1 THEN "input" ELSE "clarify"
                /\ len = 2 * n + 1 => ~HasCurrentQuestion(status[d])

C9_Witness ==
    \E d \in Drivers :
        /\ CleanRound(d)
        /\ status[d].questions = <<"Budget?", "Dates?">>
        /\ Len(seg[d]) = 5
        /\ seg[d][3].arg.question_index = 0
        /\ seg[d][5].arg.question_index = 1
        /\ status[d].idx = 2
        /\ pc[d] = "loop_query"

\* t is line without its leading and trailing whitespace
IsTrimOf(t, line) ==
    \E a, b \in 0..Len(line) :
        /\ a + b <= Len(line)
        /\ t = SubSeq(line, a + 1, Len(line) - b)
        /\ \A i \in 1..a : line[i] \in Whitespace
        /\ \A i \in (Len(line) - b + 1)..Len(line) : line[i] \in Whitespace
        /\ t # <<>> => t[1] \notin Whitespace /\ t[Len(t)] \notin Whitespace

(***************************************************************************)
(* C10: no provide_single_clarification update carries an empty answer: an *)
(* answer that is empty once trimmed goes out as "No specific preference", *)
(* any other answer that is no exit word goes out as its trimmed text.     *)
(***************************************************************************)
C10_NoEmptyAnswer ==
    \A d \in Drivers : \A i \in Events(d) :
        seg[d][i].op = "provide_single_clarification" =>
            /\ seg[d][i].arg.answer # <<>>
            /\ i > 1 /\ Is(seg[d][i - 1], "input", 97)
            /\ \/ /\ IsTrimOf(<<>>, seg[d][i - 1].arg)
                  /\ seg[d][i].arg.answer = NoPreference
               \/ /\ ~IsTrimOf(<<>>, seg[d][i - 1].arg)
                  /\ IsTrimOf(seg[d][i].arg.answer, seg[d][i - 1].arg)

C10_Witness ==
    \E d \in Drivers : \E i \in Events(d) :
        /\ i > 1
        /\ seg[d][i].op = "provide_single_clarification"
        /\ seg[d][i - 1].arg = <<" ", " ">>
        /\ seg[d][i].arg.answer = NoPreference
        /\ seg[d][i].res = "collecting_answers"

(***************************************************************************)
(* C11: a question is presented and an answer read or submitted only while *)
(* the index of the working snapshot is a valid index into its questions;  *)
(* when a poll or an update response leaves the current question           *)
(* undefined, the inner loop is left for the status query of the outer     *)
(* loop, with no update issued.                                            *)
(***************************************************************************)
C11_AsksOnlyWhileQuestionDefined ==
    \A d \in Drivers :
        /\ pc[d] \in {"input", "clarify"} =>
              /\ status[d].present
              /\ status[d].idx \in 0..(Len(status[d].questions) - 1)
        /\ ( /\ InLoop(d)
             /\ Last(seg[d]).op \in {"query", "provide_single_clarification"}
             /\ Last(seg[d]).res \in QuestionStatuses ) =>
              pc[d] = IF status[d].idx \in 0..(Len(status[d].questions) - 1)
                      THEN "input" ELSE "loop_query"

C11_Witness ==
    \E d \in Drivers :
        /\ InLoop(d) /\ Len(seg[d]) = 1
        /\ seg[d][1].res = "collecting_answers"
        /\ status[d].questions = <<"Budget?">> /\ status[d].idx = 1
        /\ pc[d] = "loop_query"

(***************************************************************************)
(* C12: a start_workflow call that fails is the last call of the           *)
(* invocation: the failure is raised to the caller, the start is not       *)
(* tried again and no query, update, signal, describe or result follows.   *)
(***************************************************************************)
C12_StartFailurePropagates ==
    \A d \in Drivers : \A i \in StartEvents(d) :
        seg[d][i].res = "error" =>
            /\ i = Len(seg[d])
            /\ pc[d] = "raised"
            /\ StartEvents(d) = {i}

C12_Witness ==
    \E d \in Drivers :
        /\ Len(seg[d]) = 3
        /\ Is(seg[d][2], "query", 35) /\ seg[d][2].res = "completed"
        /\ Is(seg[d][3], "start_workflow", 53) /\ seg[d][3].res = "error"
        /\ handle[d] = workflow_id
        /\ pc[d] = "raised"

(***************************************************************************)
(* C13: an answer read from the user goes into at most one update call:    *)
(* every update is issued right after the read of its own answer, and an   *)
(* update that raises is followed by the coarse-status check, never by a   *)
(* second update.                                                          *)
(***************************************************************************)
C13_AnswerSubmittedOnce ==
    \A d \in Drivers :
        /\ \A i \in Events(d) :
              seg[d][i].op = "provide_single_clarification" =>
                  /\ i > 1 /\ Is(seg[d][i - 1], "input", 97)
                  /\ seg[d][i].res = "error" =>
                        IF i = Len(seg[d]) THEN pc[d] = "describe"
                        ELSE Is(seg[d][i + 1], "describe", 138)
        /\ pc[d] = "clarify" => Is(Last(seg[d]), "input", 97)

C13_Witness ==
    \E d \in Drivers :
        /\ InLoop(d) /\ Len(seg[d]) = 5
        /\ Is(seg[d][3], "provide_single_clarification", 104)
        /\ seg[d][3].res = "error"
        /\ Is(seg[d][4], "describe", 138) /\ seg[d][4].res = "RUNNING"
        /\ Is(seg[d][5], "sleep", 142)
        /\ pc[d] = "loop_query"

(***************************************************************************)
(* C16: the interactive loop never polls twice in a row with nothing in    *)
(* between: whenever an invocation that has polled is about to poll again, *)
(* a timed wait or a clarification update has happened since the last      *)
(* poll.                                                                   *)
(***************************************************************************)
C16_NoBusyWait ==
    \A d \in Drivers :
        (InLoop(d) /\ pc[d] = "loop_query") =>
            \E i \in Events(d) :
                seg[d][i].op \in {"sleep", "provide_single_clarification"}

\* the mapping sent is the mapping given: same keys, same values
SameEntries(sent, given) ==
    /\ DOMAIN sent = DOMAIN given
    /\ \A k \in DOMAIN given : sent[k] = given[k]

UpdateCalls == {i \in 1..Len(calls) : calls[i].op = "provide_clarifications"}

(***************************************************************************)
(* C14 as stated: send_clarifications never raises, makes no query and no  *)
(* signal, and by the time it returns it has made exactly one              *)
(* provide_clarifications update, whose payload holds every entry of       *)
(* responses.                                                              *)
(***************************************************************************)
C14_ExactlyOneBatchUpdate ==
    /\ cpc # "raised"
    /\ \A i \in 1..Len(calls) : calls[i].op \notin {"query", "signal"}
    /\ cpc = "returned" =>
          /\ Cardinality(UpdateCalls) = 1
          /\ \A i \in UpdateCalls : SameEntries(calls[i].arg.responses, responses)

(***************************************************************************)
(* C14 as amended: send_clarifications never raises, makes no query and no *)
(* signal and at most one provide_clarifications update; once the handle   *)
(* is obtained it makes exactly one, whose payload holds every entry of    *)
(* responses, and a failure of that update ends the function normally;     *)
(* when obtaining the handle fails, it returns with no update made.        *)
(***************************************************************************)
C14_OneBatchUpdateOnceHandleObtained ==
    /\ cpc # "raised"
    /\ \A i \in 1..Len(calls) : calls[i].op \notin {"query", "signal"}
    /\ Cardinality(UpdateCalls) <= 1
    /\ \A i \in UpdateCalls :
          /\ i = 2 /\ calls[1].res = "ok"
          /\ SameEntries(calls[i].arg.responses, responses)
    /\ cpc = "returned" =>
          /\ calls # <<>> /\ Is(calls[1], "get_workflow_handle", 186)
          /\ IF calls[1].res = "ok" THEN Cardinality(UpdateCalls) = 1
             ELSE UpdateCalls = {}

C14_Witness ==
    /\ cpc = "returned"
    /\ Len(calls) = 2
    /\ Is(calls[2], "provide_clarifications", 187)
    /\ calls[2].res = "error"
    /\ DOMAIN calls[2].arg.responses = {<<"a">>, <<"b">>}
    /\ calls[2].arg.responses[<<"a">>] = <<"2">>

\* arg is key, "=" , value, with no "=" in key
IsPair(arg, j) == j < Len(arg) /\ arg[j + 1] = "=" /\ \A m \in 1..j : arg[m] # "="
\* arg has "=" and the text before the first "=" is key
HasKey(arg, key) ==
    /\ Len(arg) > Len(key)
    /\ SubSeq(arg, 1, Len(key)) = key
    /\ arg[Len(key) + 1] = "="
    /\ \A m \in 1..Len(key) : key[m] # "="
\* the arguments parse_clarifications has gone through
Parsed == 1..(arg_i - 1)

(***************************************************************************)
(* C19: the mapping parse_clarifications builds holds, for every argument  *)
(* gone through that has a "=", the text before the first "=" as a key;    *)
(* the value under a key is the text after the first "=" of the last       *)
(* argument with that key; arguments without "=" add nothing, and there    *)
(* are no other keys.                                                      *)
(***************************************************************************)
C19_ParseClarifications ==
    /\ \A i \in Parsed :
          LET arg == clarification_args[i] IN
          \A j \in 0..Len(arg) :
              IsPair(arg, j) =>
                  LET key == SubSeq(arg, 1, j) IN
                  /\ key \in DOMAIN responses
                  /\ (\A i2 \in Parsed : i2 > i => ~HasKey(clarification_args[i2], key))
                        => responses[key] = SubSeq(arg, j + 2, Len(arg))
    /\ \A key \in DOMAIN responses :
          \E i \in Parsed : HasKey(clarification_args[i], key)
    /\ cpc # "parse" => arg_i = Len(clarification_args) + 1

C19_Witness ==
    /\ cpc = "get_handle"
    /\ clarification_args = << <<"a","=","1">>, <<"b">>, <<"a","=","2">> >>
    /\ DOMAIN responses = {<<"a">>}
    /\ responses[<<"a">>] = <<"2">>

\* a start_research update that driver d has made on run id and that did not raise
Submitted(d, id) ==
    \E i \in Events(d) :
        /\ Is(seg[d][i], "start_research", 70)
        /\ seg[d][i].arg = id
        /\ seg[d][i].res # "error"

(***************************************************************************)
(* C15: of two drivers attached to the same run, found pending, at most    *)
(* one gets a start_research update through to the run: the initial query  *)
(* is applied to the run at most once.                                     *)
(***************************************************************************)
C15_QueryAppliedOnce ==
    \A d1, d2 \in Drivers :
        (d1 # d2 /\ handle[d1] = handle[d2] /\ handle[d1] # NoHandle) =>
            ~(Submitted(d1, handle[d1]) /\ Submitted(d2, handle[d2]))

\* the driver gets a reply from the run to the update that submits its answer
ClarifyApplied(d) ==
    /\ pc[d] = "clarify"
    /\ seg'[d] # seg[d]
    /\ Last(seg'[d]).res # "error"

(***************************************************************************)
(* C18 as stated: every provide_single_clarification update carries the    *)
(* run's current_question_index as it is when the run applies the update,  *)
(* whatever the interleaving of the drivers attached to the run.           *)
(***************************************************************************)
C18_IndexIsTheRunsIndex ==
    [][\A d \in Drivers :
          ClarifyApplied(d) =>
              Last(seg'[d]).arg.question_index = runs[handle[d]].idx]_vars

(***************************************************************************)
(* C18 as amended: every provide_single_clarification update carries the   *)
(* current_question_index of the driver's working snapshot, the one the    *)
(* question was presented from; that index is never ahead of the run's,    *)
(* and it is the run's when no other driver has been attached to the run.  *)
(***************************************************************************)
C18_IndexIsTheSnapshotsIndex ==
    [][\A d \in Drivers :
          ClarifyApplied(d) =>
              LET sent == Last(seg'[d]).arg.question_index IN
              /\ Is(Last(seg[d]), "input", 97)
              /\ sent = status[d].idx
              /\ sent <= runs[handle[d]].idx
              /\ (\A e \in Drivers \ {d} : pc[e] = "idle") =>
                    sent = runs[handle[d]].idx]_vars

C18_Witness ==
    \E d1, d2 \in Drivers :
        /\ d1 # d2 /\ handle[d1] = handle[d2] /\ handle[d1] \in DOMAIN runs
        /\ \A d \in {d1, d2} :
              /\ Is(Last(seg[d]), "provide_single_clarification", 104)
              /\ Last(seg[d]).arg.question_index = 0
              /\ Last(seg[d]).res = "collecting_answers"
        /\ runs[handle[d1]].idx = 2

\* the run driver 1 is at is finished
RunFinished ==
    /\ handle[1] \in DOMAIN runs
    /\ runs[handle[1]].status \in TerminalStatuses

(***************************************************************************)
(* C17: when no remote call fails, the user types no exit word and the run *)
(* the driver is at ends up finished for good, the invocation ends: the    *)
(* driver returns or raises.                                               *)
(***************************************************************************)
C17_InvocationTerminates ==
    ( /\ <>[]RunFinished
      /\ []~exiting[1]
      /\ [](\A i \in Events(1) : seg[1][i].res # "error") )
        => <>(pc[1] \in Returned)

====
